---- MODULE Spec2Model ----
(***************************************************************************)
(* Model of dashboard_anova.py: the Streamlit page script, load_data and   *)
(* perform_anova_for_variable.                                             *)
(*                                                                         *)
(* A column's cleaned (factor, price) slice is abstracted to the sequence  *)
(* of its group sizes (one entry per observed factor level, each >= 1):    *)
(* every branch of the code reads only nunique(), len() and the sizes of   *)
(* the groups.  The results of the statistics and plotting libraries are   *)
(* inputs: each call either raises or returns a value of which only the    *)
(* bucket the code compares against (p >= 0.05, statistic < critical       *)
(* value) is kept.                                                         *)
(***************************************************************************)
EXTENDS Integers, Sequences, FiniteSets, TLC

VARIABLES pc, df, coluna_preco, colunas_categoricas_selecionaveis,
          variaveis_selecionadas, variaveis_defined, page,
          i, var_analisada, called, resultados_var, calls, raised, screen,
          outcome, libcache, history, runs

vars == <<pc, df, coluna_preco, colunas_categoricas_selecionaveis,
          variaveis_selecionadas, variaveis_defined, page,
          i, var_analisada, called, resultados_var, calls, raised, screen,
          outcome, libcache, history, runs>>

(* ------------------------------ bounds -------------------------------- *)

\* Largest number of factor levels of a column of the dataset.
MaxLevels == 2

\* Largest number of runs of the page script in one session.
MaxRuns == 2

\* Candidate columns of the dataset.
Cols == {"c1", "c2"}

\* Sizes a group of a column may have.
GroupSizes == {1, 2, 8, 4999}

(* ------------------------- program constants -------------------------- *)

MinLevels == 2
MinObs == 10
ShapiroMin == 3
ShapiroMax == 5000
MinGroupObs == 2
MinValidGroups == 2
max_selections == 3

(* ------------------------------ samples ------------------------------- *)

SeqsUpTo(S, n) == UNION {[1..k -> S] : k \in 0..n}

\* The order of the groups plays no part in the code, so one representative
\* (nondecreasing sizes) stands for every ordering of the same groups.
IsSorted(s) == \A k \in 1..(Len(s) - 1) : s[k] <= s[k + 1]

Samples == {s \in SeqsUpTo(GroupSizes, MaxLevels) : IsSorted(s)}

RECURSIVE SumSeq(_)
SumSeq(s) == IF s = <<>> THEN 0 ELSE Head(s) + SumSeq(Tail(s))

\* df_var[var_cat].nunique()
nunique(sample) == Len(sample)

\* len(df_var)
len(sample) == SumSeq(sample)

\* results[k] = v on a dict
Put(d, k, v) == [x \in (DOMAIN d) \cup {k} |-> IF x = k THEN v ELSE d[x]]

(* ------------------------- library outcomes --------------------------- *)

LibCalls == {"ols", "shapiro", "anderson", "plot_norm", "levene", "kruskal", "boxplot"}

LibOutcomes ==
    [ols : {"raise", "ok"},
     shapiro : {"raise", "ge05", "lt05"},
     anderson : {"raise", "below", "above"},
     plot_norm : {"raise", "ok"},
     levene : {"raise", "ge05", "lt05"},
     kruskal : {"raise", "ok"},
     boxplot : {"raise", "ok"}]

NoLib == [c \in LibCalls |-> "unset"]

(* ------------------- perform_anova_for_variable ----------------------- *)
(* The function's computation is carried as st = [results, calls, exc]:    *)
(* results is the dict being filled, calls the library calls made so far,  *)
(* exc the call that raised ("none" while nothing has raised).            *)

\* Mutant: the dict is shared between calls instead of created per call.
NewResultsShared(var_cat) == Put(resultados_var, "var_cat", var_cat)

\* results = {"var_cat": var_cat, "plots": {}}
NewResults(var_cat) == [var_cat |-> var_cat, plots |-> {}]

\* Mutant: "and" in place of "or".
InsufficientDataBoth(sample) == nunique(sample) < MinLevels /\ len(sample) < MinObs

\* if df_var[var_cat].nunique() < 2 or len(df_var) < 10
InsufficientData(sample) == nunique(sample) < MinLevels \/ len(sample) < MinObs

\* modelo = ols(...).fit(); anova_table; p_valor_anova.  The Type II table of
\* a fitted one-factor model has the row C(var_cat), so the p-value is read from
\* it; a failure of the fit or of anova_lm is the outcome "raise".
FitModel(st, lib) ==
    IF lib.ols = "raise"
    THEN [st EXCEPT !.calls = @ \cup {"ols"}, !.exc = "ols"]
    ELSE [st EXCEPT !.calls = @ \cup {"ols"},
                    !.results = Put(Put(@, "anova_table", "table"), "p_valor_anova", "p")]

\* if len(residuos) >= 3
NormalityTested(n) == n >= ShapiroMin

\* Mutant: "<" in place of "<=".
UsesShapiroBelow(n) == n < ShapiroMax

\* if len(residuos) <= 5000
UsesShapiro(n) == n <= ShapiroMax

\* 1. Normalidade dos residuos; n = len(modelo.resid), one residual per row of
\* df_var.  "below" / "above": the Anderson-Darling statistic against the
\* critical value at the 5% level.
NormalityCheck(st, n, lib) ==
    LET r0 == Put(st.results, "residuos_count", n)
    IN  IF NormalityTested(n)
        THEN IF UsesShapiro(n)
             THEN IF lib.shapiro = "raise"
                  THEN [st EXCEPT !.results = r0, !.calls = @ \cup {"shapiro"},
                                  !.exc = "shapiro"]
                  ELSE [st EXCEPT !.results = Put(Put(r0, "shapiro_test", lib.shapiro),
                                                  "normalidade_ok", lib.shapiro = "ge05"),
                                  !.calls = @ \cup {"shapiro"}]
             ELSE IF lib.anderson = "raise"
                  THEN [st EXCEPT !.results = r0, !.calls = @ \cup {"anderson"},
                                  !.exc = "anderson"]
                  ELSE [st EXCEPT !.results = Put(Put(r0, "anderson_test", lib.anderson),
                                                  "normalidade_ok", lib.anderson = "below"),
                                  !.calls = @ \cup {"anderson"}]
        ELSE [st EXCEPT !.results = Put(r0, "normalidade_ok", FALSE)]

\* Plots de Normalidade
NormalityPlots(st, lib) ==
    IF lib.plot_norm = "raise"
    THEN [st EXCEPT !.calls = @ \cup {"plot_norm"}, !.exc = "plot_norm"]
    ELSE [st EXCEPT !.calls = @ \cup {"plot_norm"},
                    !.results = Put(@, "plots", @.plots \cup {"normalidade"})]

\* Mutant: groups of a single observation are kept.
IsValidGroupAny(g) == g >= 1

\* len(g) >= 2
IsValidGroup(g) == g >= MinGroupObs

\* grupos_validos = [g for g in grupos if len(g) >= 2]
grupos_validos(sample) == SelectSeq(sample, IsValidGroup)

\* if len(grupos_validos) >= 2
EnoughValidGroups(sample) == Len(grupos_validos(sample)) >= MinValidGroups

\* 2. Homocedasticidade (Teste de Levene)
LeveneCheck(st, sample, lib) ==
    IF EnoughValidGroups(sample)
    THEN IF lib.levene = "raise"
         THEN [st EXCEPT !.calls = @ \cup {"levene"}, !.exc = "levene"]
         ELSE [st EXCEPT !.calls = @ \cup {"levene"},
                         !.results = Put(Put(@, "levene_test", lib.levene),
                                         "homocedasticidade_ok", lib.levene = "ge05")]
    ELSE [st EXCEPT !.results = Put(@, "homocedasticidade_ok", FALSE)]

\* Mutant: "and" in place of "or".
KruskalNeededBoth(normalidade_ok, homocedasticidade_ok) ==
    ~normalidade_ok /\ ~homocedasticidade_ok

\* if not normalidade_ok or not homocedasticidade_ok
KruskalNeeded(normalidade_ok, homocedasticidade_ok) ==
    ~normalidade_ok \/ ~homocedasticidade_ok

\* 3. Kruskal-Wallis (se necessario)
KruskalFallback(st, sample, lib) ==
    IF KruskalNeeded(st.results.normalidade_ok, st.results.homocedasticidade_ok)
       /\ EnoughValidGroups(sample)
    THEN IF lib.kruskal = "raise"
         THEN [st EXCEPT !.calls = @ \cup {"kruskal"}, !.exc = "kruskal"]
         ELSE [st EXCEPT !.calls = @ \cup {"kruskal"},
                         !.results = Put(@, "kruskal_test", "stat_p")]
    ELSE st

\* Boxplot
Boxplot(st, lib) ==
    IF lib.boxplot = "raise"
    THEN [st EXCEPT !.calls = @ \cup {"boxplot"}, !.exc = "boxplot"]
    ELSE [st EXCEPT !.calls = @ \cup {"boxplot"},
                    !.results = Put(@, "plots", @.plots \cup {"boxplot"})]

\* The body of the try statement: a raise skips everything after it.
TryBlock(st0, sample, lib) ==
    LET s1 == FitModel(st0, lib)
        s2 == IF s1.exc # "none" THEN s1 ELSE NormalityCheck(s1, len(sample), lib)
        s3 == IF s2.exc # "none" THEN s2 ELSE NormalityPlots(s2, lib)
        s4 == IF s3.exc # "none" THEN s3 ELSE LeveneCheck(s3, sample, lib)
        s5 == IF s4.exc # "none" THEN s4 ELSE KruskalFallback(s4, sample, lib)
        s6 == IF s5.exc # "none" THEN s5 ELSE Boxplot(s5, lib)
    IN  s6

\* Mutant: a narrower except clause that lets the tests' exceptions through.
ExceptionCaughtFitOnly(exc) == exc = "ols"

\* except Exception: every exception a library call raises is an Exception
ExceptionCaught(exc) == exc \in LibCalls

\* except Exception as e: results["error"] = str(e)
ExceptHandler(st) ==
    IF st.exc = "none" THEN st
    ELSE IF ExceptionCaught(st.exc)
         THEN [st EXCEPT !.results = Put(@, "error", st.exc)]
         ELSE [st EXCEPT !.propagated = TRUE]

perform_anova_for_variable(sample, var_cat, lib) ==
    LET st0 == [results |-> NewResults(var_cat), calls |-> {}, exc |-> "none",
                propagated |-> FALSE]
    IN  IF InsufficientData(sample)
        THEN [st0 EXCEPT !.results = Put(@, "error", "Dados insuficientes")]
        ELSE ExceptHandler(TryBlock(st0, sample, lib))

(* --------------------------- presentation ----------------------------- *)

\* resultados_var.get(k) used as a condition
GetBool(d, k) == k \in DOMAIN d /\ d[k]

\* Mutant: the ANOVA table is rendered before the error check.
RenderTableFirst(results) ==
    (IF "anova_table" \in DOMAIN results THEN {"anova_table"} ELSE {})
    \cup (IF "error" \in DOMAIN results THEN {"error"} ELSE {"expander", "separator"})

\* What the loop body renders for a record (after the subheader).
Render(results) ==
    IF "error" \in DOMAIN results
    THEN {"error"}
    ELSE (IF "anova_table" \in DOMAIN results
          THEN {"anova_table"} \cup
               (IF "p_valor_anova" \in DOMAIN results /\ results.p_valor_anova # "None"
                THEN {"anova_verdict"} ELSE {})
          ELSE {})
         \cup {"expander"}
         \cup (IF "shapiro_test" \in DOMAIN results THEN {"shapiro"}
               ELSE IF "anderson_test" \in DOMAIN results THEN {"anderson"} ELSE {})
         \cup (IF GetBool(results, "normalidade_ok") THEN {"normal"} ELSE {"not_normal"})
         \cup (IF "normalidade" \in results.plots THEN {"plot_normalidade"} ELSE {})
         \cup (IF "levene_test" \in DOMAIN results
               THEN {"levene"} \cup
                    (IF GetBool(results, "homocedasticidade_ok")
                     THEN {"homogeneous"} ELSE {"not_homogeneous"})
               ELSE {"levene_not_performed"})
         \cup (IF "kruskal_test" \in DOMAIN results THEN {"kruskal"} ELSE {})
         \cup (IF "boxplot" \in results.plots THEN {"plot_boxplot"} ELSE {})
         \cup {"separator"}

\* Mutant: only an empty slice is skipped.
PreCheckSkipsEmptyOnly(sample) == len(sample) = 0

\* if df_analise_var.empty or df_analise_var[var_analisada].nunique() < 2
PreCheckSkips(sample) == len(sample) = 0 \/ nunique(sample) < MinLevels

(* ------------------------------ state --------------------------------- *)

NoResults == [var_cat |-> "none", plots |-> {}]

IsInjective(s) == \A a, b \in 1..Len(s) : s[a] = s[b] => a = b

\* What st.sidebar.multiselect(options=..., max_selections=3) can return.
Selections(options) ==
    {s \in SeqsUpTo(options, max_selections) : IsInjective(s)}

\* The library functions are deterministic: a call made again on the same
\* column's slice gives what it gave before.
Consistent(lib, cached) ==
    \A c \in LibCalls : cached[c] # "unset" => lib[c] = cached[c]

Remember(cached, lib, made) ==
    [c \in LibCalls |-> IF c \in made THEN lib[c] ELSE cached[c]]

\* Outcomes that differ only in calls the function does not make on a sample
\* are one input: the outcomes of the calls made, "unset" for the others (the
\* calls made do not depend on the variable's name).
RelevantOutcomes ==
    [s \in Samples |->
        {Remember(NoLib, lib, perform_anova_for_variable(s, "c1", lib).calls) :
            lib \in LibOutcomes}]

Init ==
    /\ pc = "start"
    /\ df = [is_none |-> TRUE, cols |-> [c \in {} |-> <<>>]]
    /\ coluna_preco = "None"
    /\ colunas_categoricas_selecionaveis = {}
    /\ variaveis_selecionadas = <<>>
    /\ variaveis_defined = FALSE
    /\ page = {}
    /\ i = 1
    /\ var_analisada = "none"
    /\ called = FALSE
    /\ resultados_var = NoResults
    /\ calls = {}
    /\ raised = "none"
    /\ screen = {}
    /\ outcome = <<>>
    /\ libcache = [c \in Cols |-> NoLib]
    /\ history = [c \in Cols |-> {}]
    /\ runs = 1

(* ------------------------------ actions ------------------------------- *)

\* load_data(), first call of the session (not yet cached)
load_data ==
    /\ pc = "start"
    /\ \/ /\ df' = [is_none |-> TRUE, cols |-> [c \in {} |-> <<>>]]
          /\ coluna_preco' = "None"
          /\ colunas_categoricas_selecionaveis' = {}
          /\ page' = {"error_load"}
       \/ \E cats \in SUBSET Cols :
          /\ df' = [is_none |-> FALSE, cols |-> [c \in cats |-> <<>>]]
          /\ coluna_preco' = "None"
          /\ colunas_categoricas_selecionaveis' = cats
          /\ page' = {"success_load"}
       \/ \E cats \in SUBSET Cols : \E data \in [cats -> Samples] :
          /\ df' = [is_none |-> FALSE, cols |-> data]
          /\ coluna_preco' = "saleprice"
          /\ colunas_categoricas_selecionaveis' = cats
          /\ page' = {"success_load"}
    /\ pc' = "loaded"
    /\ UNCHANGED <<variaveis_selecionadas, variaveis_defined, i, var_analisada, called,
                   resultados_var, calls, raised, screen, outcome, libcache, history,
                   runs>>

\* if df is not None and coluna_preco is not None: ... multiselect
MainBranch ==
    /\ pc = "loaded"
    /\ ~df.is_none /\ coluna_preco # "None"
    /\ \E sel \in Selections(colunas_categoricas_selecionaveis) :
          /\ variaveis_selecionadas' = sel
          /\ page' = page \cup {"header_overview"}
                          \cup (IF sel # <<>> THEN {"header_results"}
                                ELSE {"button_disabled"})
    /\ variaveis_defined' = TRUE
    /\ i' = 1
    /\ pc' = "loop"
    /\ UNCHANGED <<df, coluna_preco, colunas_categoricas_selecionaveis, var_analisada,
                   called, resultados_var, calls, raised, screen, outcome, libcache,
                   history, runs>>

\* one iteration of: for var_analisada in variaveis_selecionadas
LoopIteration ==
    /\ pc = "loop"
    /\ i <= Len(variaveis_selecionadas)
    /\ LET v == variaveis_selecionadas[i]
           df_analise_var == df.cols[v]
       IN  /\ var_analisada' = v
           /\ IF PreCheckSkips(df_analise_var)
              THEN /\ called' = FALSE
                   /\ calls' = {}
                   /\ raised' = "none"
                   /\ screen' = {"subheader", "warning"}
                   /\ outcome' = Append(outcome, "warning")
                   /\ i' = i + 1
                   /\ pc' = "loop"
                   /\ UNCHANGED <<resultados_var, libcache, history, page>>
              ELSE \E lib \in RelevantOutcomes[df_analise_var] :
                   /\ Consistent(lib, libcache[v])
                   /\ LET r == perform_anova_for_variable(df_analise_var, v, lib)
                      IN  /\ called' = TRUE
                          /\ calls' = r.calls
                          /\ raised' = r.exc
                          /\ libcache' = [libcache EXCEPT
                                            ![v] = Remember(@, lib, r.calls)]
                          /\ IF r.propagated
                             THEN /\ pc' = "crashed"
                                  /\ page' = page \cup {"traceback"}
                                  /\ screen' = {"subheader"}
                                  /\ UNCHANGED <<resultados_var, outcome, i, history>>
                             ELSE /\ resultados_var' = r.results
                                  /\ history' = [history EXCEPT ![v] = @ \cup
                                        {[sel |-> variaveis_selecionadas,
                                          results |-> r.results]}]
                                  /\ screen' = {"subheader"} \cup Render(r.results)
                                  /\ outcome' = Append(outcome,
                                        IF "error" \in DOMAIN r.results
                                        THEN "error" ELSE "results")
                                  /\ i' = i + 1
                                  /\ pc' = "loop"
                                  /\ UNCHANGED page
    /\ UNCHANGED <<df, coluna_preco, colunas_categoricas_selecionaveis,
                   variaveis_selecionadas, variaveis_defined, runs>>

\* end of the main branch: the loop is over (or was not entered); sidebar footer
EndMainBranch ==
    /\ pc = "loop"
    /\ i > Len(variaveis_selecionadas)
    /\ page' = page \cup {"sidebar_footer"}
    /\ pc' = "insights"
    /\ UNCHANGED <<df, coluna_preco, colunas_categoricas_selecionaveis,
                   variaveis_selecionadas, variaveis_defined, i, var_analisada, called,
                   resultados_var, calls, raised, screen, outcome, libcache, history,
                   runs>>

\* elif df is None and coluna_preco is None
LoadFailureBranch ==
    /\ pc = "loaded"
    /\ ~(~df.is_none /\ coluna_preco # "None")
    /\ df.is_none /\ coluna_preco = "None"
    /\ page' = page \cup {"warning_waiting"}
    /\ pc' = "insights"
    /\ UNCHANGED <<df, coluna_preco, colunas_categoricas_selecionaveis,
                   variaveis_selecionadas, variaveis_defined, i, var_analisada, called,
                   resultados_var, calls, raised, screen, outcome, libcache, history,
                   runs>>

\* else: the two error messages
NoPriceBranch ==
    /\ pc = "loaded"
    /\ ~(~df.is_none /\ coluna_preco # "None")
    /\ ~(df.is_none /\ coluna_preco = "None")
    /\ page' = page
               \cup (IF coluna_preco = "None" THEN {"error_no_price"} ELSE {})
               \cup (IF colunas_categoricas_selecionaveis = {}
                     THEN {"error_no_categorical"} ELSE {})
    /\ pc' = "insights"
    /\ UNCHANGED <<df, coluna_preco, colunas_categoricas_selecionaveis,
                   variaveis_selecionadas, variaveis_defined, i, var_analisada, called,
                   resultados_var, calls, raised, screen, outcome, libcache, history,
                   runs>>

\* if variaveis_selecionadas: (module level, after the branches)
InsightsBlock ==
    /\ pc = "insights"
    /\ IF ~variaveis_defined
       THEN /\ pc' = "crashed"
            /\ page' = page \cup {"traceback"}
       ELSE /\ pc' = "done"
            /\ page' = page \cup (IF variaveis_selecionadas # <<>>
                                  THEN {"header_insights"} ELSE {})
    /\ UNCHANGED <<df, coluna_preco, colunas_categoricas_selecionaveis,
                   variaveis_selecionadas, variaveis_defined, i, var_analisada, called,
                   resultados_var, calls, raised, screen, outcome, libcache, history,
                   runs>>

\* A widget interaction reruns the script from the top in a fresh namespace;
\* load_data is served from st.cache_data (its messages are replayed).
Rerun ==
    /\ pc \in {"done", "crashed"}
    /\ runs < MaxRuns
    /\ runs' = runs + 1
    /\ pc' = "loaded"
    /\ page' = IF df.is_none THEN {"error_load"} ELSE {"success_load"}
    /\ variaveis_selecionadas' = <<>>
    /\ variaveis_defined' = FALSE
    /\ i' = 1
    /\ var_analisada' = "none"
    /\ called' = FALSE
    /\ resultados_var' = NoResults
    /\ calls' = {}
    /\ raised' = "none"
    /\ screen' = {}
    /\ outcome' = <<>>
    /\ UNCHANGED <<df, coluna_preco, colunas_categoricas_selecionaveis, libcache,
                   history>>

\* One run of the page script.
Next ==
    \/ load_data
    \/ MainBranch
    \/ LoopIteration
    \/ EndMainBranch
    \/ LoadFailureBranch
    \/ NoPriceBranch
    \/ InsightsBlock

Spec == Init /\ [][Next]_vars

\* A session: the dataset is loaded (and cached) with a price column, and the
\* user changes the selection up to MaxRuns times.
SessionSamples == {<<8>>, <<1, 8>>, <<2, 8>>, <<1, 4999>>}

InitSession ==
    /\ pc = "loaded"
    /\ \E data \in [Cols -> SessionSamples] : df = [is_none |-> FALSE, cols |-> data]
    /\ coluna_preco = "saleprice"
    /\ colunas_categoricas_selecionaveis = Cols
    /\ variaveis_selecionadas = <<>>
    /\ variaveis_defined = FALSE
    /\ page = {"success_load"}
    /\ i = 1
    /\ var_analisada = "none"
    /\ called = FALSE
    /\ resultados_var = NoResults
    /\ calls = {}
    /\ raised = "none"
    /\ screen = {}
    /\ outcome = <<>>
    /\ libcache = [c \in Cols |-> NoLib]
    /\ history = [c \in Cols |-> {}]
    /\ runs = 1

NextSession ==
    \/ MainBranch
    \/ LoopIteration
    \/ EndMainBranch
    \/ InsightsBlock
    \/ Rerun

SpecSession == InitSession /\ [][NextSession]_vars

\* perform_anova_for_variable called on its own, on any sample.
InitFn ==
    /\ pc = "call"
    /\ \E v \in Cols : \E s \in Samples :
          /\ df = [is_none |-> FALSE, cols |-> [c \in {v} |-> s]]
          /\ var_analisada = v
    /\ coluna_preco = "saleprice"
    /\ colunas_categoricas_selecionaveis = {}
    /\ variaveis_selecionadas = <<>>
    /\ variaveis_defined = FALSE
    /\ page = {}
    /\ i = 1
    /\ called = FALSE
    /\ resultados_var = NoResults
    /\ calls = {}
    /\ raised = "none"
    /\ screen = {}
    /\ outcome = <<>>
    /\ libcache = [c \in Cols |-> NoLib]
    /\ history = [c \in Cols |-> {}]
    /\ runs = 1

CallPerform ==
    /\ pc = "call"
    /\ \E lib \in RelevantOutcomes[df.cols[var_analisada]] :
          LET r == perform_anova_for_variable(df.cols[var_analisada], var_analisada, lib)
          IN  /\ called' = TRUE
              /\ calls' = r.calls
              /\ raised' = r.exc
              /\ resultados_var' = IF r.propagated THEN resultados_var ELSE r.results
              /\ pc' = IF r.propagated THEN "crashed" ELSE "returned"
    /\ UNCHANGED <<df, coluna_preco, colunas_categoricas_selecionaveis,
                   variaveis_selecionadas, variaveis_defined, page, i, var_analisada,
                   screen, outcome, libcache, history, runs>>

NextFn == CallPerform

SpecFn == InitFn /\ [][NextFn]_vars

(* ------------------------------ claims -------------------------------- *)

\* The slice of the variable of the last loop iteration (or call).
CurSample == df.cols[var_analisada]

\* The last iteration called perform_anova_for_variable.
Analysed == var_analisada # "none" /\ called

\* ... and the record it returned carries no error (not rejected, no exception).
Completed == Analysed /\ "error" \notin DOMAIN resultados_var

\* Factor levels with at least 2 observations.
ValidGroupCount(sample) == Cardinality({k \in 1..Len(sample) : sample[k] >= 2})

\* Fewer than 2 distinct levels or fewer than 10 rows.
TooFew(sample) == Len(sample) < 2 \/ SumSeq(sample) < 10

RunOver == pc \in {"insights", "done"}

\* C1: in a run of perform_anova_for_variable that is not rejected and raises
\* nothing, the record has kruskal_test if and only if (normality is false or
\* homogeneity is false) and at least 2 factor levels have >= 2 observations.
C1_KruskalIff ==
    Completed =>
        (("kruskal_test" \in DOMAIN resultados_var) <=>
            ((~resultados_var.normalidade_ok \/ ~resultados_var.homocedasticidade_ok)
             /\ ValidGroupCount(CurSample) >= 2))

C1_Witness ==
    /\ Completed
    /\ "kruskal_test" \in DOMAIN resultados_var
    /\ resultados_var.normalidade_ok
    /\ ~resultados_var.homocedasticidade_ok

\* C2: in such a run the record has levene_test if and only if at least 2 factor
\* levels have >= 2 observations; without it the homogeneity verdict is false and
\* the page says the test could not be performed.
C2_LeveneIff ==
    Completed =>
        /\ ("levene_test" \in DOMAIN resultados_var) <=> (ValidGroupCount(CurSample) >= 2)
        /\ "levene_test" \notin DOMAIN resultados_var =>
              /\ resultados_var.homocedasticidade_ok = FALSE
              /\ "levene_not_performed" \in screen
              /\ "levene" \notin screen

C2_Witness ==
    /\ Completed
    /\ "levene_test" \notin DOMAIN resultados_var
    /\ ValidGroupCount(CurSample) = 1

\* C3: on a sample with fewer than 2 levels or fewer than 10 rows,
\* perform_anova_for_variable returns a record holding only var_cat, empty plots
\* and the insufficient-data error, and makes no library call (no fit).
C3_RejectsWithoutFit ==
    (pc # "call" /\ TooFew(CurSample)) =>
        /\ pc = "returned"
        /\ DOMAIN resultados_var = {"var_cat", "plots", "error"}
        /\ resultados_var.error = "Dados insuficientes"
        /\ resultados_var.plots = {}
        /\ calls = {}

C3_Witness ==
    /\ pc = "returned"
    /\ Len(CurSample) < 2
    /\ SumSeq(CurSample) >= 10
    /\ "error" \in DOMAIN resultados_var

\* C4: once the residual count n is known, Shapiro-Wilk is called iff
\* 3 <= n <= 5000 and Anderson-Darling iff n > 5000; for n < 3 neither is called,
\* the verdict is false and nothing has raised; before that point neither is
\* called; a record never holds both results.
C4_NormalityTestByCount ==
    Analysed =>
        /\ ~("shapiro_test" \in DOMAIN resultados_var
             /\ "anderson_test" \in DOMAIN resultados_var)
        /\ IF "residuos_count" \in DOMAIN resultados_var
           THEN LET n == resultados_var.residuos_count
                IN  /\ n = SumSeq(CurSample)
                    /\ ("shapiro" \in calls) <=> (3 <= n /\ n <= 5000)
                    /\ ("anderson" \in calls) <=> (n > 5000)
                    /\ ("shapiro_test" \in DOMAIN resultados_var) =>
                          ("shapiro" \in calls /\ raised # "shapiro")
                    /\ ("anderson_test" \in DOMAIN resultados_var) =>
                          ("anderson" \in calls /\ raised # "anderson")
                    /\ n < 3 =>
                          /\ resultados_var.normalidade_ok = FALSE
                          /\ raised \notin {"shapiro", "anderson"}
           ELSE calls \cap {"shapiro", "anderson"} = {}

C4_Witness ==
    /\ Analysed
    /\ "shapiro_test" \in DOMAIN resultados_var
    /\ resultados_var.residuos_count = 5000

\* C5: an exception raised by the fit or by a test is caught in
\* perform_anova_for_variable, stored as the record's error and rendered as that
\* variable's error alone; the run goes on and every selected variable gets its
\* iteration.
C5_ExceptionContained ==
    /\ (Analysed /\ raised # "none") =>
          /\ pc # "crashed"
          /\ "error" \in DOMAIN resultados_var
          /\ resultados_var.error = raised
          /\ screen = {"subheader", "error"}
    /\ variaveis_defined => pc # "crashed"
    /\ (variaveis_defined /\ RunOver) => Len(outcome) = Len(variaveis_selecionadas)

C5_Witness ==
    /\ pc = "done"
    /\ Len(variaveis_selecionadas) = 2
    /\ \E c \in LibCalls : libcache[variaveis_selecionadas[1]][c] = "raise"
    /\ outcome = <<"error", "results">>

\* C6: whatever load_data returns, the run of the script never ends in an
\* unhandled exception.
C6_RunNeverCrashes == pc # "crashed"

\* C7 as stated: a variable with fewer than 2 levels or fewer than 10
\* observations is skipped with a warning, not an error.
C7_SkippedWithWarning ==
    (var_analisada # "none" /\ TooFew(CurSample)) =>
        ("warning" \in screen /\ "error" \notin screen)

\* C7 amended: a variable with fewer than 2 levels gets the warning and no
\* analysis; one with at least 2 levels but fewer than 10 observations gets the
\* insufficient-data error of perform_anova_for_variable; either way the run goes
\* on and every selected variable gets its iteration.
C7_WarningOrRejection ==
    /\ (var_analisada # "none" /\ TooFew(CurSample)) =>
          IF Len(CurSample) < 2
          THEN screen = {"subheader", "warning"} /\ ~called
          ELSE /\ screen = {"subheader", "error"}
               /\ called
               /\ resultados_var.error = "Dados insuficientes"
    /\ variaveis_defined => pc # "crashed"
    /\ (variaveis_defined /\ RunOver) => Len(outcome) = Len(variaveis_selecionadas)

C7_Witness ==
    /\ pc = "done"
    /\ Len(variaveis_selecionadas) = 2
    /\ Len(df.cols[variaveis_selecionadas[1]]) < 2
    /\ outcome = <<"warning", "results">>

\* C8: when the dataset loads, a missing price column is reported as an error,
\* and so is an empty list of candidate categorical columns, each on its own.
C8_ProblemsReported ==
    (pc \in {"insights", "done", "crashed"} /\ ~df.is_none) =>
        /\ coluna_preco = "None" => "error_no_price" \in page
        /\ colunas_categoricas_selecionaveis = {} => "error_no_categorical" \in page

\* C9: every record produced for a variable in a session is the same record,
\* whatever the selection it was part of, and it is the record of that variable.
C9_RecordIndependent ==
    /\ \A c \in Cols : \A a, b \in history[c] : a.results = b.results
    /\ \A c \in Cols : \A a \in history[c] : a.results.var_cat = c

C9_Witness ==
    \E a, b \in history["c1"] :
        /\ a.sel = <<"c1">>
        /\ b.sel = <<"c2", "c1">>
        /\ "kruskal_test" \in DOMAIN a.results
        /\ \E c \in LibCalls : libcache["c2"][c] = "raise"

\* C10: when the record of a variable carries an error, only the subheader and
\* the error message are rendered for it.
C10_ErrorOnly ==
    (Analysed /\ "error" \in DOMAIN resultados_var) => screen = {"subheader", "error"}

C10_Witness ==
    /\ Analysed
    /\ pc = "loop"
    /\ raised = "boxplot"
    /\ "error" \in DOMAIN resultados_var
    /\ "anova_table" \in DOMAIN resultados_var
    /\ "kruskal_test" \in DOMAIN resultados_var
    /\ "levene_test" \in DOMAIN resultados_var

====
